---- MODULE Spec2Model ----
(***************************************************************************)
(* Model of AuthService (src/src/modules/auth/auth.service.ts): JWT        *)
(* issuance and verification, the Redis-backed registry of the current     *)
(* access token per user, and the CAPTCHA session verifier.                *)
(*                                                                         *)
(* Time is counted in ticks; TicksPerSec ticks make one second.  A JWT     *)
(* carries whole seconds (iat, exp), as jsonwebtoken floors Date.now().    *)
(***************************************************************************)
EXTENDS Integers, Sequences, FiniteSets, TLC

VARIABLES
    now,      \* the clock, Date.now(), in ticks
    config,   \* ConfigService: secrets and expiry windows, fixed at startup
    cache,    \* RedisService: key -> entry
    reqs,     \* the refreshAccessToken calls in flight or finished
    session,  \* the connection's express-session record
    verified, \* how often the stored challenge has verified successfully
    held,     \* the token a client holds (the one issued last)
    ret       \* outcome of the operation that completed last

vars == <<now, config, cache, reqs, session, verified, held, ret>>

----------------------------------------------------------------------------
(* Bounds of the model *)

MaxNow == 3
TicksPerSec == 2
MaxReqs == 2
AccessExpiresIn == 1
RefreshExpiresIn == 2
CaptchaTicks == 2
MaxVerified == 2

Users == {<<1, "1a">>, <<11, "a">>}
Secrets == {"k1", "k2"}
Reqs == 1..MaxReqs

Sec(t) == t \div TicksPerSec

----------------------------------------------------------------------------
(* Values *)

NoUser == <<0, "">>
NoToken == [sub |-> 0, iat |-> 0, exp |-> 0, sig |-> ""]
NoPayload == [sub |-> 0, iat |-> 0, exp |-> 0]

\* What an operation hands to its caller: a value (ok) or an exception with
\* its code; at is the time the operation completed.
Return(op, user, tok, payload, t) ==
    [op |-> op, user |-> user, ok |-> TRUE, code |-> "", token |-> tok,
     payload |-> payload, at |-> t]
Throw(op, user, code, t) ==
    [op |-> op, user |-> user, ok |-> FALSE, code |-> code, token |-> NoToken,
     payload |-> NoPayload, at |-> t]

----------------------------------------------------------------------------
(* jsonwebtoken, as JwtService uses it: HS256 over the payload with a      *)
(* secret; iat and exp in whole seconds; no clock tolerance.               *)

jwtSign(payload, secret, expiresIn, t) ==
    payload @@ [iat |-> Sec(t), exp |-> Sec(t) + expiresIn, sig |-> secret]

jwtPayload(token) == [f \in (DOMAIN token) \ {"sig"} |-> token[f]]

\* "invalid signature", "jwt expired", or "" when the token verifies
jwtVerifyError(token, secret, t) ==
    IF token.sig # secret THEN "JsonWebTokenError"
    ELSE IF Sec(t) >= token.exp THEN "TokenExpiredError"
    ELSE ""

\* JwtModule's registered defaults, used by signAsync without options
ModuleSecret == config.JWT_ACCESS_TOKEN_SECRET
ModuleExpiresIn == config.JWT_ACCESS_TOKEN_EXPIRES_IN

\* a token signed with the other secret
generateAccessToken_wrongSecret(id, userName, t) ==
    jwtSign([sub |-> id, userName |-> userName], config.JWT_REFRESH_TOKEN_SECRET,
            ModuleExpiresIn, t)

generateAccessToken(id, userName, t) ==
    jwtSign([sub |-> id, userName |-> userName], ModuleSecret, ModuleExpiresIn, t)

\* a verification that also asks the registry for the token
verifyAccessToken_registered(token, t) ==
    IF /\ jwtVerifyError(token, config.JWT_ACCESS_TOKEN_SECRET, t) = ""
       /\ \E k \in DOMAIN cache : cache[k].present /\ cache[k].value = token
    THEN Return("verifyAccessToken", NoUser, token, jwtPayload(token), t)
    ELSE Throw("verifyAccessToken", NoUser, "UNAUTHORIZED_ACCESS_TOKEN", t)

verifyAccessToken(token, t) ==
    IF jwtVerifyError(token, config.JWT_ACCESS_TOKEN_SECRET, t) = ""
    THEN Return("verifyAccessToken", NoUser, token, jwtPayload(token), t)
    ELSE Throw("verifyAccessToken", NoUser, "UNAUTHORIZED_ACCESS_TOKEN", t)

generateRefreshToken(id, t) ==
    jwtSign([sub |-> id], config.JWT_REFRESH_TOKEN_SECRET,
            config.JWT_REFRESH_TOKEN_EXPIRES_IN, t)

\* a verification with the access secret
verifyRefresToken_accessSecret(token, t) ==
    IF jwtVerifyError(token, config.JWT_ACCESS_TOKEN_SECRET, t) = ""
    THEN Return("verifyRefresToken", NoUser, token, jwtPayload(token), t)
    ELSE Throw("verifyRefresToken", NoUser, "UNAUTHORIZED_REFRESH_TOKEN", t)

verifyRefresToken(token, t) ==
    IF jwtVerifyError(token, config.JWT_REFRESH_TOKEN_SECRET, t) = ""
    THEN Return("verifyRefresToken", NoUser, token, jwtPayload(token), t)
    ELSE Throw("verifyRefresToken", NoUser, "UNAUTHORIZED_REFRESH_TOKEN", t)

----------------------------------------------------------------------------
(* RedisService: a key-value store with per-key expiry *)

\* a key without the separator between id and userName
redisTokenKeyStr_nosep(id, userName) ==
    "user_token:" \o ToString(id) \o userName

redisTokenKeyStr(id, userName) ==
    "user_token:" \o ToString(id) \o "-" \o userName

Keys == {redisTokenKeyStr(u[1], u[2]) : u \in Users}

NoEntry == [present |-> FALSE, value |-> NoToken, expiresAt |-> 0]

setCache(c, key, value, ttl, t) ==
    [c EXCEPT ![key] = [present |-> TRUE, value |-> value,
                        expiresAt |-> t + ttl * TicksPerSec]]

getCache(c, key) == c[key]

clearCatch(c, key) == [c EXCEPT ![key] = NoEntry]

\* Redis drops the entries whose time to live has run out
expire(c, t) ==
    [k \in DOMAIN c |-> IF c[k].present /\ c[k].expiresAt <= t THEN NoEntry ELSE c[k]]

\* a write that keeps an entry already there (SET ... NX)
setTokenToRedis_keep(c, key, token, t) ==
    IF c[key].present THEN c
    ELSE setCache(c, key, token, config.JWT_ACCESS_TOKEN_EXPIRES_IN, t)

setTokenToRedis(c, key, token, t) ==
    setCache(c, key, token, config.JWT_ACCESS_TOKEN_EXPIRES_IN, t)

getRedisToken(c, id, userName) == getCache(c, redisTokenKeyStr(id, userName))

clearUserToken(c, id, userName) == clearCatch(c, redisTokenKeyStr(id, userName))

----------------------------------------------------------------------------
(* The CAPTCHA session verifier.  A text is a sequence of characters.      *)

CaptchaSize == 4
CaptchaChars == {"a", "B"}
AnswerChars == {"a", "A", "b", "B"}

\* svgCaptcha.create({size: 4, ignoreChars: '0OlI', ...}).text
generateCaptcha == [1..CaptchaSize -> CaptchaChars]

\* what a client can send as the answer
Answers == [1..CaptchaSize -> AnswerChars] \cup {<<>>, <<"a">>}

LowerChar(c) == CASE c = "A" -> "a" [] c = "B" -> "b" [] OTHER -> c

toLocaleLowerCase(s) == [i \in 1..Len(s) |-> LowerChar(s[i])]

\* express-session's record; a field that is not set has has... = FALSE
NoSession ==
    [exists |-> FALSE, hasCaptcha |-> FALSE, captcha |-> <<>>,
     hasExp |-> FALSE, expirationTimestamp |-> 0]

Challenge(text, expiresAt) ==
    [exists |-> TRUE, hasCaptcha |-> TRUE, captcha |-> text,
     hasExp |-> TRUE, expirationTimestamp |-> expiresAt]

\* !session?.captcha : no session, no field, or the empty string
NoCaptcha(s) == ~s.exists \/ ~s.hasCaptcha \/ s.captcha = <<>>

\* !session?.expirationTimestamp : no field, or the number 0
NoExpiration(s) == ~s.exists \/ ~s.hasExp \/ s.expirationTimestamp = 0

\* a comparison that keeps the case
verifyCaptcha_exact(captcha, s, t) ==
    IF NoCaptcha(s) THEN "UNAUTHORIZED_NOTFOUND_SESSION"
    ELSE IF NoExpiration(s) \/ t > s.expirationTimestamp
         THEN "UNAUTHORIZED_CAPTCHA_EXPIRE"
    ELSE IF captcha # s.captcha THEN "UNAUTHORIZED_CAPTCHA_ERROR"
    ELSE ""

\* the code of the exception verifyCaptcha throws, "" when it returns
verifyCaptcha(captcha, s, t) ==
    IF NoCaptcha(s) THEN "UNAUTHORIZED_NOTFOUND_SESSION"
    ELSE IF NoExpiration(s) \/ t > s.expirationTimestamp
         THEN "UNAUTHORIZED_CAPTCHA_EXPIRE"
    ELSE IF toLocaleLowerCase(captcha) # toLocaleLowerCase(s.captcha)
         THEN "UNAUTHORIZED_CAPTCHA_ERROR"
    ELSE ""

----------------------------------------------------------------------------
(* Configuration: two secrets and two expiry windows, read-only after      *)
(* startup.  The access and the refresh secret are separate settings with  *)
(* different values.                                                       *)

Configs ==
    {[JWT_ACCESS_TOKEN_SECRET |-> a, JWT_REFRESH_TOKEN_SECRET |-> r,
      JWT_ACCESS_TOKEN_EXPIRES_IN |-> AccessExpiresIn,
      JWT_REFRESH_TOKEN_EXPIRES_IN |-> RefreshExpiresIn] :
        <<a, r>> \in {p \in Secrets \X Secrets : p[1] # p[2]}}

NoRet == Throw("", NoUser, "", 0)
IdleReq == [pc |-> "idle", user |-> NoUser, token |-> NoToken, tries |-> 0]

----------------------------------------------------------------------------
(* The clock *)

Tick ==
    /\ now < MaxNow
    /\ now' = now + 1
    /\ cache' = expire(cache, now + 1)
    /\ UNCHANGED <<config, reqs, session, verified, held, ret>>

----------------------------------------------------------------------------
(* The registry: setTokenToRedis, getRedisToken, refreshAccessToken,       *)
(* clearUserToken.  A call to Redis either takes effect or is rejected     *)
(* (store unreachable).                                                    *)

\* setTokenToRedis(redisTokenKeyStr(id, userName), token) from the login flow
StoreOk(u) ==
    LET token == generateAccessToken(u[1], u[2], now) IN
    /\ cache' = setTokenToRedis(cache, redisTokenKeyStr(u[1], u[2]), token, now)
    /\ ret' = Return("setTokenToRedis", u, token, NoPayload, now)
    /\ UNCHANGED <<now, config, reqs, session, verified, held>>

StoreFail(u) ==
    /\ ret' = Throw("setTokenToRedis", u, "RedisError", now)
    /\ UNCHANGED <<now, config, cache, reqs, session, verified, held>>

Fetch(u) ==
    LET e == getRedisToken(cache, u[1], u[2]) IN
    /\ ret' = IF e.present THEN Return("getRedisToken", u, e.value, NoPayload, now)
              ELSE Return("getRedisToken", u, NoToken, NoPayload, now)
    /\ UNCHANGED <<now, config, cache, reqs, session, verified, held>>

\* refreshAccessToken is entered and signs its token; calls are numbered in
\* the order they are made
\* const token = await this.generateAccessToken(id, userName)
RefreshCall(r, u) ==
    /\ reqs[r].pc = "idle"
    /\ \A q \in Reqs : q < r => reqs[q].pc # "idle"
    /\ reqs' = [reqs EXCEPT ![r] = [pc |-> "set", user |-> u,
                                    token |-> generateAccessToken(u[1], u[2], now),
                                    tries |-> 0]]
    /\ UNCHANGED <<now, config, cache, session, verified, held, ret>>

\* a write that yields to a newer token already cached (compare-and-swap)
RefreshSetOk_cas(r) ==
    LET k == redisTokenKeyStr(reqs[r].user[1], reqs[r].user[2]) IN
    /\ reqs[r].pc = "set"
    /\ cache' = IF cache[k].present /\ cache[k].value.iat > reqs[r].token.iat
                THEN cache
                ELSE setTokenToRedis(cache, k, reqs[r].token, now)
    /\ reqs' = [reqs EXCEPT ![r].pc = "done", ![r].tries = @ + 1]
    /\ ret' = Return("refreshAccessToken", reqs[r].user, reqs[r].token, NoPayload, now)
    /\ UNCHANGED <<now, config, session, verified, held>>

\* await this.setTokenToRedis(key, token); return token
RefreshSetOk(r) ==
    /\ reqs[r].pc = "set"
    /\ cache' = setTokenToRedis(cache,
                    redisTokenKeyStr(reqs[r].user[1], reqs[r].user[2]),
                    reqs[r].token, now)
    /\ reqs' = [reqs EXCEPT ![r].pc = "done", ![r].tries = @ + 1]
    /\ ret' = Return("refreshAccessToken", reqs[r].user, reqs[r].token, NoPayload, now)
    /\ UNCHANGED <<now, config, session, verified, held>>

\* a handler that swallows the rejected write and returns the token anyway
RefreshSetFail_swallow(r) ==
    /\ reqs[r].pc = "set"
    /\ reqs' = [reqs EXCEPT ![r].pc = "done", ![r].tries = @ + 1]
    /\ ret' = Return("refreshAccessToken", reqs[r].user, reqs[r].token, NoPayload, now)
    /\ UNCHANGED <<now, config, cache, session, verified, held>>

\* the write is rejected: catch (e) { throw InternalServerErrorException }
RefreshSetFail(r) ==
    /\ reqs[r].pc = "set"
    /\ reqs' = [reqs EXCEPT ![r].pc = "failed", ![r].token = NoToken,
                            ![r].tries = @ + 1]
    /\ ret' = Throw("refreshAccessToken", reqs[r].user, "INTERNALSERVERERROR_REDIS", now)
    /\ UNCHANGED <<now, config, cache, session, verified, held>>

\* clearUserToken: the delete takes effect, the reply is logged
LogoutOk(u) ==
    /\ cache' = clearUserToken(cache, u[1], u[2])
    /\ ret' = Return("clearUserToken", u, NoToken, NoPayload, now)
    /\ UNCHANGED <<now, config, reqs, session, verified, held>>

\* clearUserToken: the delete is rejected; nothing catches the rejection
LogoutFail(u) ==
    /\ ret' = Throw("clearUserToken", u, "RedisError", now)
    /\ UNCHANGED <<now, config, cache, reqs, session, verified, held>>

----------------------------------------------------------------------------
(* The CAPTCHA flow of one connection *)

\* a new challenge replaces the session's answer and expiry
GenerateCaptcha(text) ==
    /\ session' = Challenge(text, now + CaptchaTicks)
    /\ verified' = 0
    /\ ret' = Return("generateCaptcha", NoUser, NoToken, NoPayload, now)
    /\ UNCHANGED <<now, config, cache, reqs, held>>

\* verifyCaptcha(captcha, session): reads the session, leaves it as it is
VerifyCaptcha(answer) ==
    LET code == verifyCaptcha(answer, session, now) IN
    /\ verified < MaxVerified
    /\ verified' = IF code = "" THEN verified + 1 ELSE verified
    /\ ret' = IF code = ""
              THEN Return("verifyCaptcha", NoUser, NoToken, NoPayload, now)
              ELSE Throw("verifyCaptcha", NoUser, code, now)
    /\ UNCHANGED <<now, config, cache, reqs, session, held>>

\* the sessions a request can arrive with: none, or any of its fields unset
Sessions ==
    {NoSession} \cup
    {[exists |-> TRUE, hasCaptcha |-> hc, captcha |-> IF hc THEN c ELSE <<>>,
      hasExp |-> he, expirationTimestamp |-> IF he THEN e ELSE 0] :
        hc \in BOOLEAN, c \in generateCaptcha \cup {<<>>},
        he \in BOOLEAN, e \in 0..MaxNow}

\* Date.now() is positive
InitCaptcha ==
    /\ now = 1
    /\ config = CHOOSE c \in Configs : TRUE
    /\ cache = [k \in Keys |-> NoEntry]
    /\ reqs = [r \in Reqs |-> IdleReq]
    /\ session \in Sessions
    /\ verified = 0
    /\ held = NoToken
    /\ ret = NoRet

NextCaptcha ==
    \/ Tick
    \/ \E text \in generateCaptcha : GenerateCaptcha(text)
    \/ \E answer \in Answers : VerifyCaptcha(answer)

SpecCaptcha == InitCaptcha /\ [][NextCaptcha]_vars

----------------------------------------------------------------------------
(* The token service: a client is issued a token and presents it later *)

IssueAccess(u) ==
    /\ held' = generateAccessToken(u[1], u[2], now)
    /\ ret' = Return("generateAccessToken", u, held', NoPayload, now)
    /\ UNCHANGED <<now, config, cache, reqs, session, verified>>

IssueRefresh(u) ==
    /\ held' = generateRefreshToken(u[1], now)
    /\ ret' = Return("generateRefreshToken", u, held', NoPayload, now)
    /\ UNCHANGED <<now, config, cache, reqs, session, verified>>

VerifyAccess ==
    /\ held # NoToken
    /\ ret' = verifyAccessToken(held, now)
    /\ UNCHANGED <<now, config, cache, reqs, session, verified, held>>

VerifyRefresh ==
    /\ held # NoToken
    /\ ret' = verifyRefresToken(held, now)
    /\ UNCHANGED <<now, config, cache, reqs, session, verified, held>>

InitToken ==
    /\ now = 0
    /\ config \in Configs
    /\ cache = [k \in Keys |-> NoEntry]
    /\ reqs = [r \in Reqs |-> IdleReq]
    /\ session = NoSession
    /\ verified = 0
    /\ held = NoToken
    /\ ret = NoRet

NextToken ==
    \/ Tick
    \/ \E u \in Users : IssueAccess(u)
    \/ \E u \in Users : IssueRefresh(u)
    \/ VerifyAccess
    \/ VerifyRefresh

SpecToken == InitToken /\ [][NextToken]_vars

----------------------------------------------------------------------------
(* The registry service *)

Init ==
    /\ now = 0
    /\ config = CHOOSE c \in Configs : TRUE
    /\ cache = [k \in Keys |-> NoEntry]
    /\ reqs = [r \in Reqs |-> IdleReq]
    /\ session = NoSession
    /\ verified = 0
    /\ held = NoToken
    /\ ret = NoRet

Next ==
    \/ Tick
    \/ \E u \in Users : StoreOk(u)
    \/ \E u \in Users : StoreFail(u)
    \/ \E u \in Users : Fetch(u)
    \/ \E r \in Reqs, u \in Users : RefreshCall(r, u)
    \/ \E r \in Reqs : RefreshSetOk(r)
    \/ \E r \in Reqs : RefreshSetFail(r)
    \/ \E u \in Users : LogoutOk(u)
    \/ \E u \in Users : LogoutFail(u)

Spec == Init /\ [][Next]_vars

----------------------------------------------------------------------------
(* Properties of the registry *)

Entry(u) == getRedisToken(cache, u[1], u[2])
Stores == {"setTokenToRedis", "refreshAccessToken"}

\* C1: the cache holds one token per (id, userName); right after a store (by
\* setTokenToRedis or refreshAccessToken) the entry of that pair is exactly the
\* token of that store, whatever was stored before, and a fetch at that moment
\* returns the entry.
C1_StoreThenFetch ==
    /\ (ret.op \in Stores /\ ret.ok /\ ret.at = now) =>
           (Entry(ret.user).present /\ Entry(ret.user).value = ret.token)
    /\ (ret.op = "getRedisToken" /\ ret.at = now) =>
           ret.token = (IF Entry(ret.user).present THEN Entry(ret.user).value
                        ELSE NoToken)

\* a store follows a refresh of the same user that wrote a different token
\* not long before
C1_Witness ==
    /\ ret.op = "setTokenToRedis" /\ ret.ok /\ ret.at = now
    /\ \E r \in Reqs : /\ reqs[r].pc = "done"
                       /\ reqs[r].user = ret.user
                       /\ reqs[r].token # ret.token
                       /\ Sec(now) <= reqs[r].token.exp

\* the access tokens the service can have issued to u by time t
IssuedBy(u, t) == {generateAccessToken(u[1], u[2], i) : i \in 0..t}

\* C2: once clearUserToken has completed, the user's entry is absent, and
\* every access token issued to the user that has not expired still verifies.
C2_RevokeKeepsTokensValid ==
    (ret.op = "clearUserToken" /\ ret.ok) =>
        /\ ~Entry(ret.user).present
        /\ \A tk \in IssuedBy(ret.user, now) :
               Sec(now) < tk.exp =>
                   /\ verifyAccessToken(tk, now).ok
                   /\ verifyAccessToken(tk, now).payload.sub = ret.user[1]

\* a user is logged out while a token a refresh returned to it is unexpired
C2_Witness ==
    /\ ret.op = "clearUserToken" /\ ret.ok
    /\ \E r \in Reqs : /\ reqs[r].pc = "done"
                       /\ reqs[r].user = ret.user
                       /\ Sec(now) < reqs[r].token.exp

\* C3: clearUserToken never hands an exception to its caller, also when the
\* delete is rejected by the cache store.
C3_LogoutBestEffort == ret.op = "clearUserToken" => ret.ok

\* C7: a finished refreshAccessToken call has written once; it has either
\* returned the token it signed, stored under the user's key, or thrown
\* INTERNALSERVERERROR_REDIS; it never returns a token it did not store.
C7_RefreshOutcome ==
    /\ \A r \in Reqs :
           /\ reqs[r].pc \in {"done", "failed"} => reqs[r].tries = 1
           /\ reqs[r].pc = "done" => reqs[r].token # NoToken
    /\ ret.op = "refreshAccessToken" =>
           IF ret.ok
           THEN /\ ret.token \in IssuedBy(ret.user, ret.at)
                /\ ret.at = now =>
                       (Entry(ret.user).present /\ Entry(ret.user).value = ret.token)
                /\ \E r \in Reqs : reqs[r].pc = "done" /\ reqs[r].token = ret.token
           ELSE /\ ret.code = "INTERNALSERVERERROR_REDIS"
                /\ \E r \in Reqs : reqs[r].pc = "failed" /\ reqs[r].user = ret.user

\* one call has failed on its write and another has returned its token
C7_Witness ==
    /\ \E r \in Reqs : reqs[r].pc = "failed"
    /\ ret.op = "refreshAccessToken" /\ ret.ok

AllDone == \A r \in Reqs : reqs[r].pc = "done"
SameUser == \A r \in Reqs : reqs[r].user = reqs[MaxReqs].user

\* C9 as claimed: when every refreshAccessToken call for one user has
\* returned, and a refresh was the last thing to touch the cache, the entry
\* is the token of the call made last.
C9_LastInvokedWins ==
    (AllDone /\ SameUser /\ ret.op = "refreshAccessToken" /\ ret.at = now) =>
        Entry(reqs[MaxReqs].user).value = reqs[MaxReqs].token

\* C9: the write of a refreshAccessToken call replaces the entry whatever
\* it holds, also the token of a call made later: the last write wins.
C9_LastWriteWins ==
    [][\A r \in Reqs :
          RefreshSetOk(r) =>
              /\ Entry(reqs[r].user)'.present
              /\ Entry(reqs[r].user)'.value = reqs[r].token]_vars

\* all calls have returned and the entry is the token of the call made first,
\* which differs from the token of the call made last
C9_Witness ==
    /\ AllDone /\ SameUser /\ ret.op = "refreshAccessToken" /\ ret.at = now
    /\ Entry(reqs[1].user).value = reqs[1].token
    /\ reqs[1].token # reqs[MaxReqs].token

\* a step that writes or deletes the entry of u
Touches(u) ==
    \/ StoreOk(u)
    \/ LogoutOk(u)
    \/ \E r \in Reqs : reqs[r].user = u /\ RefreshSetOk(r)

\* C10: distinct (id, userName) pairs have distinct keys, and a store, a
\* refresh or a revoke for one pair leaves the entry of every other pair as
\* it was.
C10_Isolation ==
    [][\A u \in Users : Touches(u) =>
          \A v \in Users \ {u} :
              /\ redisTokenKeyStr(v[1], v[2]) # redisTokenKeyStr(u[1], u[2])
              /\ Entry(v)' = Entry(v)]_vars

\* one user is logged out while the other user's entry is present
C10_Witness ==
    /\ ret.op = "clearUserToken" /\ ret.ok /\ ret.at = now
    /\ \E v \in Users \ {ret.user} : Entry(v).present

----------------------------------------------------------------------------
(* Properties of the CAPTCHA verifier *)

\* C4: a stored challenge verifies successfully at most once; after a
\* success only a newly generated challenge can verify again.
C4_ConsumedOnSuccess == verified <= 1

CasePairs == {{"a", "A"}, {"b", "B"}}
SameIgnoringCase(a, b) ==
    /\ Len(a) = Len(b)
    /\ \A i \in 1..Len(a) : a[i] = b[i] \/ {a[i], b[i]} \in CasePairs

\* the outcome the priority order of C5 prescribes
C5_Outcome(answer, s, t) ==
    IF ~s.exists \/ ~s.hasCaptcha \/ Len(s.captcha) = 0
    THEN "UNAUTHORIZED_NOTFOUND_SESSION"
    ELSE IF ~s.hasExp \/ t > s.expirationTimestamp
         THEN "UNAUTHORIZED_CAPTCHA_EXPIRE"
    ELSE IF ~SameIgnoringCase(answer, s.captcha)
         THEN "UNAUTHORIZED_CAPTCHA_ERROR"
    ELSE ""

\* C5: for every session, clock value and answer, verifyCaptcha has the one
\* outcome the priority order gives: no session, then expired (now equal to
\* the expiry is still valid), then mismatch ignoring case, then success; and
\* the call that completed last has reported that kind of outcome.
C5_PriorityOrder ==
    /\ \A answer \in Answers :
           verifyCaptcha(answer, session, now) = C5_Outcome(answer, session, now)
    /\ (ret.op = "verifyCaptcha" /\ ret.at = now) =>
           \E answer \in Answers :
               ret.code = C5_Outcome(answer, session, now) /\ ret.ok = (ret.code = "")

\* an answer was accepted at the very moment the challenge expires, for a
\* challenge with an upper-case letter
C5_Witness ==
    /\ ret.op = "verifyCaptcha" /\ ret.ok /\ ret.at = now
    /\ session.hasExp /\ now = session.expirationTimestamp
    /\ \E i \in 1..Len(session.captcha) : session.captcha[i] = "B"

----------------------------------------------------------------------------
(* Properties of the token service *)

\* the refresh tokens the service can have issued by time t
RefreshIssuedBy(t) == {generateRefreshToken(u[1], i) : u \in Users, i \in 0..t}
AccessIssuedBy(t) == UNION {IssuedBy(u, t) : u \in Users}

\* C6: verifyAccessToken rejects every refresh token with
\* UNAUTHORIZED_ACCESS_TOKEN and verifyRefresToken rejects every access token
\* with UNAUTHORIZED_REFRESH_TOKEN, expired or not.
C6_CrossKindRejected ==
    /\ \A tk \in RefreshIssuedBy(now) :
           /\ ~verifyAccessToken(tk, now).ok
           /\ verifyAccessToken(tk, now).code = "UNAUTHORIZED_ACCESS_TOKEN"
    /\ \A tk \in AccessIssuedBy(now) :
           /\ ~verifyRefresToken(tk, now).ok
           /\ verifyRefresToken(tk, now).code = "UNAUTHORIZED_REFRESH_TOKEN"
    /\ (ret.op = "verifyAccessToken" /\ held \in RefreshIssuedBy(ret.at)) => ~ret.ok
    /\ (ret.op = "verifyRefresToken" /\ held \in AccessIssuedBy(ret.at)) => ~ret.ok

\* an access token that has not expired was presented as a refresh token and
\* rejected
C6_Witness ==
    /\ ret.op = "verifyRefresToken" /\ ~ret.ok /\ ret.at = now
    /\ ret.code = "UNAUTHORIZED_REFRESH_TOKEN"
    /\ held \in AccessIssuedBy(now)
    /\ Sec(now) < held.exp

\* C8: an access token issued for (id, userName) verifies before its expiry,
\* with a payload of sub = id and the same userName; from its expiry on it is
\* rejected with UNAUTHORIZED_ACCESS_TOKEN.
C8_RoundTrip ==
    /\ \A u \in Users : \A tk \in IssuedBy(u, now) :
           LET r == verifyAccessToken(tk, now) IN
           IF now < tk.exp * TicksPerSec
           THEN r.ok /\ r.payload.sub = u[1] /\ r.payload.userName = u[2]
           ELSE ~r.ok /\ r.code = "UNAUTHORIZED_ACCESS_TOKEN"
    /\ (ret.op = "verifyAccessToken" /\ held \in AccessIssuedBy(ret.at)) =>
           ret.ok = (ret.at < held.exp * TicksPerSec)

\* a token was accepted on the last tick before its expiry
C8_Witness ==
    /\ ret.op = "verifyAccessToken" /\ ret.ok /\ ret.at = now
    /\ ret.payload.sub = held.sub
    /\ now + 1 = held.exp * TicksPerSec

====
